---- MODULE Spec2Model ----
(***************************************************************************)
(* A model of artemis (src/main.py): the scan orchestration engine.        *)
(* Every unit of work is a thread running process_enumeration_command;     *)
(* primary units are started by enumerate, secondary units by              *)
(* secondary_enumerate.  The shared collections (commands_ran,             *)
(* detected_services, pattern_matches, manual_scans), the lock, the log    *)
(* files and the scan output files are the state.                          *)
(*                                                                         *)
(* Text is modelled at two levels: a command is the list of its shell      *)
(* words (what shlex.split returns), and a detected-service entry is the   *)
(* list of its character codes, since the natural sort reads characters.   *)
(***************************************************************************)
EXTENDS Integers, Sequences, FiniteSets, TLC

\* ------------------------------------------------------------------ bounds

\* The most work one run of the model finds in the two reports together:
\* the ports that are not closed plus the secondary units they start.
MaxWork == 3

\* ------------------------------------------------------------- basic values

\* Python's None, where a string is expected.
None == "<None>"

\* No thread holds the lock.
Free == <<0>>

\* A literal word of a template.
L(s) == [k |-> "lit", v |-> s]

\* A "{name}" placeholder of a template.
P(s) == [k |-> "ph", v |-> s]

\* The character codes of the strings that are formatted into a detected
\* service entry (ASCII).
Codes(s) ==
    CASE s = "2" -> <<50>>
      [] s = "10" -> <<49, 48>>
      [] s = "80" -> <<56, 48>>
      [] s = "tcp" -> <<116, 99, 112>>
      [] s = "open" -> <<111, 112, 101, 110>>
      [] s = "closed" -> <<99, 108, 111, 115, 101, 100>>
      [] s = "ftp" -> <<102, 116, 112>>
      [] s = "smtp" -> <<115, 109, 116, 112>>
      [] s = "http" -> <<104, 116, 116, 112>>
      [] s = "https" -> <<104, 116, 116, 112, 115>>
      [] s = "HTTP" -> <<72, 84, 84, 80>>
      [] s = "ssh" -> <<115, 115, 104>>
      [] s = "dns" -> <<100, 110, 115>>
      [] s = "[*] " -> <<91, 42, 93, 32>>
      [] s = "/" -> <<47>>
      [] s = ": " -> <<58, 32>>
      [] s = "    (" -> <<32, 32, 32, 32, 40>>
      [] s = ")" -> <<41>>
      [] s = "\n" -> <<10>>

\* str.lower() on the words of the model.
Lower(s) ==
    CASE s = "-oX" -> "-ox"
      [] s = "-oN" -> "-on"
      [] s = "HTTP" -> "http"
      [] s = "Apache" -> "apache"
      [] s = "Weak" -> "weak"
      [] s = "Server Apache" -> "server apache"
      [] s = "TLS weak" -> "tls weak"
      [] OTHER -> s

\* --------------------------------------------------------------- rendering

\* str.format(**ctx) on a template: a placeholder without a context entry
\* raises KeyError (ok = FALSE).
Format(template, ctx) ==
    IF \E i \in 1..Len(template) :
           template[i].k = "ph" /\ template[i].v \notin DOMAIN ctx
    THEN [ok |-> FALSE, text |-> <<>>]
    ELSE [ok |-> TRUE,
          text |-> [i \in 1..Len(template) |->
                       IF template[i].k = "ph" THEN ctx[template[i].v]
                       ELSE template[i].v]]

\* ------------------------------------------------------------------- Utils

\* Utils.determine_output_file: the word after the first word that is an
\* output option and has a successor; None when there is none.
determine_output_file(command, options) ==
    LET hits == {i \in 1..Len(command) :
                    Lower(command[i]) \in options /\ i + 1 <= Len(command)}
    IN IF hits = {} THEN None
       ELSE command[(CHOOSE i \in hits : \A j \in hits : i <= j) + 1]

\* Utils.should_run_command, mutated: every command is run.
should_run_command_always(command_output_file, files) == TRUE

\* Utils.should_run_command, mutated: without an output file, no run.
should_run_command_needs_file(command_output_file, files) ==
    command_output_file # None /\ command_output_file \notin files

\* Utils.should_run_command, given the set of files on disk.
should_run_command(command_output_file, files) ==
    IF command_output_file = None THEN TRUE
    ELSE command_output_file \notin files

\* The flags of process_enumeration_command's output_file_flags.
output_file_flags(type) ==
    IF type = "primary" THEN {"-ox"}
    ELSE {"-on", "tee", "-o", "--simple-report"}

IsDigit(c) == c \in 48..57

\* re.split('(\d+)', text): the fragments between digit runs and the digit
\* runs, alternately, starting and ending with a (maybe empty) fragment.
RECURSIVE SplitFrom(_, _, _)
SplitFrom(text, i, acc) ==
    IF i > Len(text)
    THEN IF Len(acc) % 2 = 0 THEN Append(acc, <<>>) ELSE acc
    ELSE LET n == Len(acc)
             inDigits == (n % 2 = 0)
         IN IF IsDigit(text[i]) = inDigits
            THEN SplitFrom(text, i + 1,
                           [acc EXCEPT ![n] = Append(acc[n], text[i])])
            ELSE SplitFrom(text, i + 1, Append(acc, <<text[i]>>))

re_split(text) == SplitFrom(text, 1, << <<>> >>)

\* int() of a run of decimal digits.
RECURSIVE IntOf(_, _)
IntOf(digits, n) ==
    IF n = 0 THEN 0 ELSE IntOf(digits, n - 1) * 10 + (digits[n] - 48)

\* Utils.alpha_to_int: an all-digit, non-empty fragment becomes an integer.
alpha_to_int(text) ==
    IF Len(text) > 0 /\ \A i \in 1..Len(text) : IsDigit(text[i])
    THEN [int |-> TRUE, n |-> IntOf(text, Len(text)), s |-> <<>>]
    ELSE [int |-> FALSE, n |-> 0, s |-> text]

\* Utils.natural_keys
natural_keys(text) ==
    LET parts == re_split(text)
    IN [i \in 1..Len(parts) |-> alpha_to_int(parts[i])]

\* Python's < on two strings (by code point).
StrLess(a, b) ==
    \/ \E i \in 1..Len(a) :
          /\ i <= Len(b)
          /\ a[i] < b[i]
          /\ \A j \in 1..(i - 1) : a[j] = b[j]
    \/ /\ Len(a) < Len(b)
       /\ \A j \in 1..Len(a) : a[j] = b[j]

\* Python's < on two elements of a key.  An int against a str raises
\* TypeError in Python; re.split's fragments alternate, so the elements at
\* one index are of one kind.
ElemLess(x, y) ==
    IF x.int /\ y.int THEN x.n < y.n ELSE StrLess(x.s, y.s)

\* Python's < on two lists.
KeyLess(a, b) ==
    \/ \E i \in 1..Len(a) :
          /\ i <= Len(b)
          /\ ElemLess(a[i], b[i])
          /\ \A j \in 1..(i - 1) : a[j] = b[j]
    \/ /\ Len(a) < Len(b)
       /\ \A j \in 1..Len(a) : a[j] = b[j]

\* The lists list.sort(key=utils.natural_keys) can leave of the elements of
\* a set: the orderings with no element's key below its predecessor's.
SortedLists(S) ==
    {lst \in [1..Cardinality(S) -> S] :
        /\ \A i, j \in 1..Cardinality(S) : i # j => lst[i] # lst[j]
        /\ \A i \in 1..(Cardinality(S) - 1) :
              ~KeyLess(natural_keys(lst[i + 1]), natural_keys(lst[i]))}

\* ----------------------------------------------------------- configuration

\* re.search(regex, text) on the (lowered) regexes and texts of the model.
re_search(regex, text) ==
    CASE regex = "^http" -> text \in {"http", "https"}
      [] regex = "^https" -> text \in {"https"}
      [] regex = "ssl" -> FALSE
      [] regex = "^ssh" -> text \in {"ssh"}
      [] regex = "ftp" -> text \in {"ftp"}
      [] regex = "dns" -> text \in {"dns"}
      [] regex = "^dns" -> text \in {"dns"}
      [] regex = "apache" -> text \in {"server apache"}
      [] regex = "weak" -> text \in {"tls weak", "login root weak", "kex weak"}
      [] regex = "login" -> text \in {"login root weak"}
      [] OTHER -> FALSE

\* Utils.extract_matching_string: the whole lowered text when the regex is
\* found in it (match.string), else None.
extract_matching_string(regex, text) ==
    IF re_search(regex, Lower(text)) THEN Lower(text) ELSE None

\* Artemis.__init__: the constructor's arguments.
address == "10.0.0.5"
nmap_extra == "-Pn"
ports == "80"
scan_directory == "scans"

\* port-scans.toml, the sub-scans of the selected scan type in order.
port_scan_config ==
    << [command |-> <<L("nmap"), P("nmap_extra"), L("-oX"), L("x1.xml"),
                      P("address")>>,
        pattern |-> << [description |-> <<L("port is open")>>,
                        pattern |-> "open"] >>],
       [command |-> <<L("nmap"), L("-sU"), L("-p"), P("ports"), L("-oX"),
                      L("x2.xml"), P("address")>>,
        pattern |-> <<>>] >>

\* universal-patterns.toml
universal_patterns ==
    << [description |-> <<L("weak crypto")>>, pattern |-> "Weak"] >>

WhatWeb == <<L("whatweb"), P("address"), L("-oN"), L("ww.txt")>>

\* service-scans.toml, its items in order: the two wordlists are strings,
\* the rest are service rules.  The sub-scan of the first dns rule names no
\* output file; the manual step of the second names {domain}, which no
\* template context holds.
services_scan_config ==
    << [dict |-> FALSE],
       [dict |-> FALSE],
       [dict |-> TRUE,
        names |-> <<"^http">>,
        manual |-> << [description |-> "web",
                       commands |-> << <<L("curl"), P("address")>>,
                                       <<L("browse"), P("scheme"),
                                         P("address"), P("port")>> >>] >>,
        scan |-> << [command |-> WhatWeb,
                     pattern |-> << [description |-> <<L("apache on"),
                                                        P("port")>>,
                                     pattern |-> "Apache"] >>] >>],
       [dict |-> TRUE,
        names |-> <<"ssl", "^https">>,
        manual |-> << [description |-> "web again",
                       commands |-> << <<L("curl"), P("address")>> >>] >>,
        scan |-> << [command |-> WhatWeb, pattern |-> <<>>] >>],
       [dict |-> TRUE,
        names |-> <<"^ssh">>,
        manual |-> <<>>,
        scan |-> << [command |-> <<L("hydra"), P("address"), L("-s"),
                                   P("port"), L("-o"), L("hydra.txt")>>,
                     pattern |-> << [description |-> <<L("login"),
                                                        P("match")>>,
                                     pattern |-> "login"] >>],
                    [command |-> <<L("ssh-audit"), P("address"), L("|"),
                                   L("tee"), L("audit.txt")>>,
                     pattern |-> <<>>] >>],
       [dict |-> TRUE,
        names |-> <<"ftp">>,
        manual |-> << [description |-> "ftp",
                       commands |-> << <<L("curl"), P("address")>>,
                                       <<L("ftp"), P("address"),
                                         P("port")>> >>] >>,
        scan |-> <<>>],
       [dict |-> TRUE,
        names |-> <<"dns">>,
        manual |-> <<>>,
        scan |-> << [command |-> <<L("dig"), P("address")>>,
                     pattern |-> <<>>] >>],
       [dict |-> TRUE,
        names |-> <<"^dns">>,
        manual |-> << [description |-> "zone transfer",
                       commands |-> << <<L("dig"), L("axfr"),
                                         P("domain")>> >>] >>,
        scan |-> <<>>] >>

\* ---------------------------------------------------- the scanning tool

\* A <port> element of an nmap XML report.
Port(portid, state, name) ==
    [portid |-> portid, protocol |-> "tcp", state |-> state,
     service |-> [name |-> name, contents |-> {}]]

\* The reports a primary scan can produce.
XmlDocs ==
    { <<>>,
      << Port("2", "open", "https") >>,
      << Port("80", "closed", "http"), Port("10", "open", "ssh") >>,
      << Port("80", "open", "ftp") >>,
      << Port("2", "open", "smtp"), Port("10", "open", "ftp") >>,
      << Port("80", "open", "dns") >> }

\* What the secondary tools write to their output files.
TextOutput(file) ==
    CASE file = "ww.txt" -> <<"Server Apache", "TLS weak">>
      [] file = "hydra.txt" -> <<"login root weak">>
      [] file = "audit.txt" -> <<"kex weak">>
      [] OTHER -> <<>>

\* The sets of output files a run can find on disk when it starts.
InitialFiles ==
    { {}, {"x1.xml", "x2.xml"}, {"x1.xml", "ww.txt", "audit.txt"} }

\* ------------------------------------------------------------------ state

VARIABLES
    started,                \* enumerate has been called
    th,                     \* the threads: unit of work -> its frame
    thread_lock,            \* self.thread_lock: its holder, or Free
    commands_ran,           \* self.commands_ran
    detected_services,      \* self.detected_services
    pattern_matches,        \* self.pattern_matches, in insertion order
    manual_scans,           \* self.manual_scans
    files,                  \* the scan output files on disk
    xml,                    \* the report each primary scan produces
    initFiles,              \* the output files on disk at the start
    commands_run_log,       \* commands.log
    detected_services_log,  \* detected_services.log, its bytes
    manual_steps_log,       \* manual_steps.log, its blocks
    patterns_detected_log,  \* patterns.log, its blocks
    manual_calls            \* the calls of log_manual_steps so far

vars ==
    <<started, th, thread_lock, commands_ran, detected_services,
      pattern_matches, manual_scans, files, xml, initFiles,
      commands_run_log, detected_services_log, manual_steps_log,
      patterns_detected_log, manual_calls>>

shared == <<commands_ran, detected_services, pattern_matches, manual_scans>>

logs ==
    <<commands_run_log, detected_services_log, manual_steps_log,
      patterns_detected_log>>

Units == DOMAIN th

\* The frame of a thread that has not run yet.
NewThread(type, template, ctx, patterns) ==
    [pc |-> "start", type |-> type, template |-> template, ctx |-> ctx,
     patterns |-> patterns,
     cmd |-> <<>>,          \* command, once rendered
     out |-> None,          \* output_file
     gate |-> "",           \* how the gate decided: "ran", "file", "run"
     ran |-> FALSE,         \* Popen was called
     wrote |-> FALSE,       \* the subprocess has written its output file
     exited |-> FALSE,      \* the subprocess has exited
     rpm |-> [called |-> FALSE, returned |-> FALSE, file |-> None,
              patterns |-> <<>>],  \* the call of record_pattern_matches
     todo |-> <<>>,         \* the matches record_pattern_matches still adds
     present |-> FALSE,     \* output_file in self.pattern_matches, as read
     seen |-> <<>>,         \* pattern_matches when the lock was taken
     parsed |-> FALSE,      \* secondary_enumerate has read the report
     doc |-> <<>>,          \* ports
     pi |-> 0,              \* the index of port in ports
     sdata |-> <<>>,        \* service_scan_data
     ri |-> 0,              \* the index of scan in services_scan_config
     buf |-> <<>>,          \* what f holds of detected_services.log
     mbuf |-> <<>>,         \* what f holds of manual_steps.log
     err |-> ""]            \* the exception that ended the thread

\* The report the tool writes to an XML output file.
XmlOf(file) == IF file = "x1.xml" THEN xml[1] ELSE xml[2]

\* ------------------------------------------------- service discovery, pure

\* The combined regex of a rule's service-names, searched in the name.
RuleMatches(scan, name) ==
    /\ scan.dict
    /\ \E i \in 1..Len(scan.names) :
          extract_matching_string(scan.names[i], name) # None

\* The secondary units one report makes secondary_enumerate start.
RECURSIVE SpawnCount(_, _)
SpawnCount(doc, i) ==
    IF i > Len(doc) THEN 0
    ELSE SpawnCount(doc, i + 1) +
         (IF doc[i].state = "closed" THEN 0
          ELSE LET R == {r \in 1..Len(services_scan_config) :
                          RuleMatches(services_scan_config[r],
                                      doc[i].service.name)}
                   Sum[S \in SUBSET R] ==
                       IF S = {} THEN 0
                       ELSE LET r == CHOOSE x \in S : TRUE
                            IN Len(services_scan_config[r].scan) +
                               Sum[S \ {r}]
               IN Sum[R])

\* The ports of a report that are not closed, plus the units they start.
Work(doc) ==
    Cardinality({i \in 1..Len(doc) : doc[i].state # "closed"})
    + SpawnCount(doc, 1)

\* The pairs of reports of a run.  The two primary scans differ in nothing
\* but their command, so the report with more work is the first scan's.
Reports ==
    {d \in XmlDocs \X XmlDocs :
        /\ Work(d[1]) + Work(d[2]) <= MaxWork
        /\ Work(d[2]) <= Work(d[1])}

Init ==
    /\ started = FALSE
    /\ th = <<>>
    /\ thread_lock = Free
    /\ commands_ran = {}
    /\ detected_services = {}
    /\ pattern_matches = <<>>
    /\ manual_scans = {}
    /\ xml \in Reports
    /\ initFiles \in InitialFiles
    /\ files = initFiles
    /\ commands_run_log = <<>>
    /\ detected_services_log = <<>>
    /\ manual_steps_log = <<>>
    /\ patterns_detected_log = <<>>
    /\ manual_calls = {}

\* Artemis.enumerate: one thread per primary sub-scan.
port_scan_data ==
    [nmap_extra |-> nmap_extra, scandir |-> scan_directory,
     address |-> address, ports |-> ports]

enumerate ==
    /\ ~started
    /\ started' = TRUE
    /\ th' = [u \in {<<i>> : i \in 1..Len(port_scan_config)} |->
                NewThread("primary", port_scan_config[u[1]].command,
                          port_scan_data, <<>>)]
    /\ UNCHANGED <<thread_lock, shared, files, xml, initFiles, logs,
                   manual_calls>>

\* ------------------------------------------- process_enumeration_command

\* An uncaught exception ends the thread where it is.
Raise(t, exception) == [t EXCEPT !.pc = "dead", !.err = exception]

\* Lines 329-330, mutated: a command that is in commands_ran goes on to
\* line 345 with its output file.
AlreadyRan_postprocesses(t, command) ==
    [t EXCEPT !.pc = "post", !.cmd = command, !.gate = "ran",
              !.out = determine_output_file(command,
                                            output_file_flags(t.type))]

\* Lines 329-330: a command that is in commands_ran returns at once.
AlreadyRan(t, command) ==
    [t EXCEPT !.pc = "done", !.cmd = command, !.gate = "ran"]

\* Lines 328-330: render the command; return when it was already run.
pec_render(u) ==
    /\ th[u].pc = "start"
    /\ LET t == th[u]
           r == Format(t.template, t.ctx)
       IN th' = [th EXCEPT ![u] =
                    IF ~r.ok THEN Raise(t, "KeyError")
                    ELSE IF r.text \in commands_ran
                    THEN AlreadyRan(t, r.text)
                    ELSE [t EXCEPT !.pc = "gate", !.cmd = r.text]]
    /\ UNCHANGED <<started, thread_lock, shared, files, xml, initFiles,
                   logs, manual_calls>>

\* Lines 332-337: find the output file and ask should_run_command.
pec_gate(u) ==
    /\ th[u].pc = "gate"
    /\ LET t == th[u]
           output_file == determine_output_file(t.cmd,
                                                output_file_flags(t.type))
       IN th' = [th EXCEPT ![u] =
                    IF should_run_command(output_file, files)
                    THEN [t EXCEPT !.pc = "add", !.out = output_file,
                                   !.gate = "run"]
                    ELSE [t EXCEPT !.pc = "post", !.out = output_file,
                                   !.gate = "file"]]
    /\ UNCHANGED <<started, thread_lock, shared, files, xml, initFiles,
                   logs, manual_calls>>

\* Line 338: self.commands_ran.add(command)
pec_add(u) ==
    /\ th[u].pc = "add"
    /\ commands_ran' = commands_ran \cup {th[u].cmd}
    /\ th' = [th EXCEPT ![u].pc = "print_cmd"]
    /\ UNCHANGED <<started, thread_lock, detected_services, pattern_matches,
                   manual_scans, files, xml, initFiles, logs, manual_calls>>

\* Line 341, thread_print: print takes the lock, prints and releases it.
print_command(u) ==
    /\ th[u].pc = "print_cmd"
    /\ thread_lock = Free
    /\ th' = [th EXCEPT ![u].pc = "log_acq"]
    /\ UNCHANGED <<started, thread_lock, shared, files, xml, initFiles,
                   logs, manual_calls>>

\* run_command, log_command line 205: self.thread_lock.acquire()
log_command_acquire(u) ==
    /\ th[u].pc = "log_acq"
    /\ thread_lock = Free
    /\ thread_lock' = u
    /\ th' = [th EXCEPT ![u].pc = "log_write"]
    /\ UNCHANGED <<started, shared, files, xml, initFiles, logs,
                   manual_calls>>

\* Lines 315-316, mutated: the subprocess is started and not waited for.
AfterPopen_nowait(t) == [t EXCEPT !.pc = "print_done", !.ran = TRUE]

\* Lines 315-316: the subprocess is started and communicate waits for it.
AfterPopen(t) == [t EXCEPT !.pc = "wait", !.ran = TRUE]

\* log_command lines 206-208, then run_command line 315: the command is
\* appended to commands.log, the lock released and the subprocess started.
log_command_write(u) ==
    /\ th[u].pc = "log_write"
    /\ commands_run_log' =
           Append(commands_run_log,
                  [thread |-> u, command |-> <<"sudo">> \o th[u].cmd])
    /\ thread_lock' = Free
    /\ th' = [th EXCEPT ![u] = AfterPopen(th[u])]
    /\ UNCHANGED <<started, shared, files, xml, initFiles,
                   detected_services_log, manual_steps_log,
                   patterns_detected_log, manual_calls>>

\* The subprocess of line 315, while it runs, writes its output file.  It
\* may also fail to: the engine does not look at how it ended.
tool_writes(u) ==
    /\ th[u].ran /\ ~th[u].exited /\ ~th[u].wrote
    /\ th[u].out # None
    /\ files' = files \cup {th[u].out}
    /\ th' = [th EXCEPT ![u].wrote = TRUE]
    /\ UNCHANGED <<started, thread_lock, shared, xml, initFiles, logs,
                   manual_calls>>

\* Line 316: the subprocess exits and communicate returns.
communicate(u) ==
    /\ th[u].pc = "wait"
    /\ th' = [th EXCEPT ![u].pc = "print_done", ![u].exited = TRUE]
    /\ UNCHANGED <<started, thread_lock, shared, files, xml, initFiles,
                   logs, manual_calls>>

\* Line 343, thread_print
print_completed(u) ==
    /\ th[u].pc = "print_done"
    /\ thread_lock = Free
    /\ th' = [th EXCEPT ![u].pc = "post"]
    /\ UNCHANGED <<started, thread_lock, shared, files, xml, initFiles,
                   logs, manual_calls>>

\* Lines 345-346, mutated: a command that was not run is not looked at.
calls_record_pattern_matches_if_run(t) == t.out # None /\ t.gate = "run"

\* Lines 345-348: record_pattern_matches is called unless there is no
\* output file, whether or not the command was run.
calls_record_pattern_matches(t) == t.out # None

\* Lines 257-262: the patterns record_pattern_matches searches.
patterns_to_search(patterns, service_data) ==
    IF "port" \in DOMAIN service_data THEN patterns \o universal_patterns
    ELSE patterns

\* Lines 268-274: the descriptions of the matches, line by line and
\* pattern by pattern, each rendered (a rendering can raise KeyError).
RECURSIVE MatchList(_, _, _, _, _)
MatchList(lines, pats, service_data, i, j) ==
    IF i > Len(lines) THEN <<>>
    ELSE IF j > Len(pats) THEN MatchList(lines, pats, service_data, i + 1, 1)
    ELSE LET match == extract_matching_string(Lower(pats[j].pattern),
                                              lines[i])
             rest == MatchList(lines, pats, service_data, i, j + 1)
             ctx == [k \in DOMAIN service_data \cup {"match"} |->
                        IF k = "match" THEN match ELSE service_data[k]]
         IN IF match # None /\ match # ""
            THEN <<Format(pats[j].description, ctx)>> \o rest
            ELSE rest

\* Lines 349-350, mutated: every unit goes on to secondary_enumerate.
AfterRpm_any_type(t) == [t EXCEPT !.pc = "se_read", !.rpm.returned = TRUE]

\* Lines 349-350: after record_pattern_matches a primary unit goes on to
\* secondary_enumerate, a secondary unit is done.
AfterRpm(t) ==
    IF t.type = "primary"
    THEN [t EXCEPT !.pc = "se_read", !.rpm.returned = TRUE]
    ELSE [t EXCEPT !.pc = "done", !.rpm.returned = TRUE]

\* Lines 345-348 and 257-267: return without an output file; else call
\* record_pattern_matches, which returns when it has no patterns, and
\* otherwise opens the output file (FileNotFoundError when it is missing).
pec_post(u) ==
    /\ th[u].pc = "post"
    /\ LET t == th[u]
           pats == patterns_to_search(t.patterns, t.ctx)
           c == [t EXCEPT !.rpm = [called |-> TRUE, returned |-> FALSE,
                                   file |-> t.out,
                                   patterns |-> t.patterns]]
           todo == MatchList(TextOutput(t.out), pats, t.ctx, 1, 1)
       IN th' = [th EXCEPT ![u] =
                    IF ~calls_record_pattern_matches(t)
                    THEN [t EXCEPT !.pc = "done"]
                    ELSE IF Len(pats) = 0 THEN AfterRpm(c)
                    ELSE IF t.out \notin files
                    THEN Raise(c, "FileNotFoundError")
                    ELSE IF todo = <<>> THEN [c EXCEPT !.pc = "lrp"]
                    ELSE [c EXCEPT !.pc = "rpm_check", !.todo = todo]]
    /\ UNCHANGED <<started, thread_lock, shared, files, xml, initFiles,
                   logs, manual_calls>>

\* Lines 274-275: render the description (KeyError ends the thread) and
\* test output_file in self.pattern_matches.
rpm_check(u) ==
    /\ th[u].pc = "rpm_check"
    /\ LET t == th[u]
       IN th' = [th EXCEPT ![u] =
                    IF ~Head(t.todo).ok THEN Raise(t, "KeyError")
                    ELSE [t EXCEPT !.pc = "rpm_update",
                                   !.present =
                                      \E i \in 1..Len(pattern_matches) :
                                         pattern_matches[i].file = t.out]]
    /\ UNCHANGED <<started, thread_lock, shared, files, xml, initFiles,
                   logs, manual_calls>>

\* Lines 276 and 278: add the description to the file's set, or give the
\* file a new set (in place, when another thread has given it one since).
rpm_update(u) ==
    /\ th[u].pc = "rpm_update"
    /\ LET t == th[u]
           d == Head(t.todo).text
           has == \E i \in 1..Len(pattern_matches) :
                     pattern_matches[i].file = t.out
       IN /\ pattern_matches' =
                IF t.present
                THEN [i \in 1..Len(pattern_matches) |->
                         IF pattern_matches[i].file = t.out
                         THEN [pattern_matches[i] EXCEPT
                                  !.descs = @ \cup {d}]
                         ELSE pattern_matches[i]]
                ELSE IF has
                THEN [i \in 1..Len(pattern_matches) |->
                         IF pattern_matches[i].file = t.out
                         THEN [file |-> t.out, descs |-> {d}]
                         ELSE pattern_matches[i]]
                ELSE Append(pattern_matches,
                            [file |-> t.out, descs |-> {d}])
          /\ th' = [th EXCEPT ![u] =
                       [t EXCEPT !.todo = Tail(t.todo),
                                 !.present = FALSE,
                                 !.pc = IF Tail(t.todo) = <<>> THEN "lrp"
                                        ELSE "rpm_check"]]
    /\ UNCHANGED <<started, thread_lock, commands_ran, detected_services,
                   manual_scans, files, xml, initFiles, logs, manual_calls>>

\* ---------------------------------------------------- log_recorded_patterns

\* Lines 293-305, mutated: pattern_description_shown is never added to.
RECURSIVE LogBlocks_repeating(_, _, _)
LogBlocks_repeating(pm, i, shown) ==
    IF i > Len(pm) THEN <<>>
    ELSE (IF pm[i].descs # {}
          THEN <<[file |-> pm[i].file, descs |-> pm[i].descs]>>
          ELSE <<>>) \o LogBlocks_repeating(pm, i + 1, shown)

\* Lines 293-305: the blocks written, one for each output file that has a
\* description not shown under an earlier file.  A block holds the file
\* and the descriptions listed under it.
RECURSIVE LogBlocks(_, _, _)
LogBlocks(pm, i, shown) ==
    IF i > Len(pm) THEN <<>>
    ELSE LET new == pm[i].descs \ shown
         IN (IF new # {}
             THEN <<[file |-> pm[i].file, descs |-> new]>>
             ELSE <<>>) \o LogBlocks(pm, i + 1, shown \cup new)

\* Lines 286-291: return when nothing was ever matched, else take the lock.
lrp_enter(u) ==
    /\ th[u].pc = "lrp"
    /\ IF Len(pattern_matches) = 0
       THEN /\ th' = [th EXCEPT ![u] = AfterRpm(th[u])]
            /\ UNCHANGED thread_lock
       ELSE /\ thread_lock = Free
            /\ thread_lock' = u
            /\ th' = [th EXCEPT ![u].pc = "lrp_write",
                                ![u].seen = pattern_matches]
    /\ UNCHANGED <<started, shared, files, xml, initFiles, logs,
                   manual_calls>>

\* Lines 292-306: rewrite patterns.log and release the lock.  When another
\* thread has changed pattern_matches since the lock was taken, the change
\* may have come during the iteration: RuntimeError (changed size during
\* iteration) then ends the thread with part of the log written and the
\* lock still held.
lrp_write(u) ==
    /\ th[u].pc = "lrp_write"
    /\ \E crash \in (IF pattern_matches # th[u].seen THEN BOOLEAN
                      ELSE {FALSE}) :
          IF crash
          THEN /\ \E k \in 0..Len(LogBlocks(th[u].seen, 1, {})) :
                     patterns_detected_log' =
                        SubSeq(LogBlocks(th[u].seen, 1, {}), 1, k)
               /\ th' = [th EXCEPT ![u] =
                            Raise([th[u] EXCEPT !.seen = <<>>],
                                  "RuntimeError")]
               /\ UNCHANGED thread_lock
          ELSE /\ patterns_detected_log' = LogBlocks(pattern_matches, 1, {})
               /\ thread_lock' = Free
               /\ th' = [th EXCEPT ![u] =
                            AfterRpm([th[u] EXCEPT !.seen = <<>>])]
    /\ UNCHANGED <<started, shared, files, xml, initFiles, commands_run_log,
                   detected_services_log, manual_steps_log, manual_calls>>

\* --------------------------------------------------------- log_manual_steps

\* Lines 233-245, mutated: the test of line 239 is left out.
RECURSIVE lms_loop_unchecked(_, _, _, _, _, _, _)
lms_loop_unchecked(manual, service_scan_data, e, c, ms, message, written) ==
    IF e > Len(manual) THEN [ok |-> TRUE, ms |-> ms, written |-> written]
    ELSE IF c > Len(manual[e].commands)
    THEN lms_loop_unchecked(manual, service_scan_data, e + 1, 1, ms, <<>>,
                  IF message # <<>>
                  THEN Append(written,
                              [description |-> manual[e].description,
                               commands |-> message])
                  ELSE written)
    ELSE LET r == Format(manual[e].commands[c], service_scan_data)
         IN IF ~r.ok THEN [ok |-> FALSE, ms |-> ms, written |-> written]
            ELSE lms_loop_unchecked(manual, service_scan_data, e, c + 1,
                          ms \cup {r.text}, Append(message, r.text), written)

\* Lines 233-245, mutated: break in place of line 240's continue, so a
\* command that is known ends its entry.
RECURSIVE lms_loop_breaks(_, _, _, _, _, _, _)
lms_loop_breaks(manual, service_scan_data, e, c, ms, message, written) ==
    IF e > Len(manual) THEN [ok |-> TRUE, ms |-> ms, written |-> written]
    ELSE IF c > Len(manual[e].commands)
    THEN lms_loop_breaks(manual, service_scan_data, e + 1, 1, ms,
                  <<>>,
                  IF message # <<>>
                  THEN Append(written,
                              [description |-> manual[e].description,
                               commands |-> message])
                  ELSE written)
    ELSE LET r == Format(manual[e].commands[c], service_scan_data)
         IN IF ~r.ok THEN [ok |-> FALSE, ms |-> ms, written |-> written]
            ELSE IF r.text \in ms
            THEN lms_loop_breaks(manual, service_scan_data, e,
                          Len(manual[e].commands) + 1, ms, message, written)
            ELSE lms_loop_breaks(manual, service_scan_data, e,
                          c + 1, ms \cup {r.text}, Append(message, r.text),
                          written)

\* Lines 233-245: the loop over the manual entries and their commands, from
\* entry e and command c on.  ms is self.manual_scans, message the commands
\* of the entry's block so far (wrote_command is message # <<>>), written
\* the blocks handed to f.write.  A KeyError of format ends it (ok = FALSE).
RECURSIVE lms_loop(_, _, _, _, _, _, _)
lms_loop(manual, service_scan_data, e, c, ms, message, written) ==
    IF e > Len(manual) THEN [ok |-> TRUE, ms |-> ms, written |-> written]
    ELSE IF c > Len(manual[e].commands)
    THEN lms_loop(manual, service_scan_data, e + 1, 1, ms, <<>>,
                  IF message # <<>>
                  THEN Append(written,
                              [description |-> manual[e].description,
                               commands |-> message])
                  ELSE written)
    ELSE LET r == Format(manual[e].commands[c], service_scan_data)
         IN IF ~r.ok THEN [ok |-> FALSE, ms |-> ms, written |-> written]
            ELSE IF r.text \in ms
            THEN lms_loop(manual, service_scan_data, e, c + 1, ms, message,
                          written)
            ELSE lms_loop(manual, service_scan_data, e, c + 1,
                          ms \cup {r.text}, Append(message, r.text), written)

\* ------------------------------------------------------ secondary_enumerate

\* Lines 372-383: the template context of a port's service.
service_scan_data(port) ==
    LET service == port.service
    IN [nmap_extra |-> nmap_extra, scandir |-> scan_directory,
        address |-> address, port |-> port.portid,
        protocol |-> port.protocol, name |-> service.name,
        username_wordlist |-> "users.txt",
        password_wordlist |-> "passwords.txt",
        secure |-> IF "ssl" \in service.contents \/ "tls" \in service.contents
                   THEN "True" ELSE "False",
        scheme |-> IF \/ "https" \in service.contents
                      \/ "ssl" \in service.contents
                      \/ "tls" \in service.contents
                   THEN "https" ELSE "http"]

\* Lines 385-387: the detected service entry, as character codes.
Entry(port) ==
    Codes("[*] ") \o Codes(port.portid) \o Codes("/") \o Codes(port.protocol)
    \o Codes(": ") \o Codes(port.service.name) \o Codes("    (")
    \o Codes(port.state) \o Codes(")")

\* Lines 367-369, mutated: no port is skipped.
skips_port_never(port) == FALSE

\* Lines 367-369: a closed port is skipped.
skips_port(port) == port.state = "closed"

\* Line 366: on to the next port, or out of the loop.
NextPort(t) ==
    IF t.pi + 1 > Len(t.doc)
    THEN [t EXCEPT !.pc = "done", !.pi = 0, !.ri = 0, !.sdata = <<>>]
    ELSE [t EXCEPT !.pc = "se_port", !.pi = t.pi + 1, !.ri = 0,
                   !.sdata = <<>>]

\* Lines 388-400, mutated: the first rule that fires is the only one.
RECURSIVE NextRule_first_match(_, _)
NextRule_first_match(t, from) ==
    IF from > Len(services_scan_config) \/ t.ri # 0
    THEN [t EXCEPT !.pc = "lds_open", !.ri = 0]
    ELSE LET scan == services_scan_config[from]
         IN IF ~RuleMatches(scan, t.sdata.name)
            THEN NextRule_first_match(t, from + 1)
            ELSE IF Len(scan.manual) > 0
            THEN [t EXCEPT !.pc = "lms_acq", !.ri = from]
            ELSE IF Len(scan.scan) > 0
            THEN [t EXCEPT !.pc = "spawn", !.ri = from]
            ELSE NextRule_first_match(t, from + 1)

\* Lines 388-400: on to the next rule, from index `from`, that is a dict,
\* matches the service name and has manual steps or sub-scans; after the
\* last rule, line 410's log_detected_services.
RECURSIVE NextRule(_, _)
NextRule(t, from) ==
    IF from > Len(services_scan_config)
    THEN [t EXCEPT !.pc = "lds_open", !.ri = 0]
    ELSE LET scan == services_scan_config[from]
         IN IF ~RuleMatches(scan, t.sdata.name) THEN NextRule(t, from + 1)
            ELSE IF Len(scan.manual) > 0
            THEN [t EXCEPT !.pc = "lms_acq", !.ri = from]
            ELSE IF Len(scan.scan) > 0
            THEN [t EXCEPT !.pc = "spawn", !.ri = from]
            ELSE NextRule(t, from + 1)

\* Lines 358-364: open and parse the report (FileNotFoundError when the
\* tool did not write it).
se_read(u) ==
    /\ th[u].pc = "se_read"
    /\ LET t == th[u]
       IN th' = [th EXCEPT ![u] =
                    IF t.out \notin files
                    THEN Raise(t, "FileNotFoundError")
                    ELSE NextPort([t EXCEPT !.doc = XmlOf(t.out),
                                            !.parsed = TRUE, !.pi = 0])]
    /\ UNCHANGED <<started, thread_lock, shared, files, xml, initFiles,
                   logs, manual_calls>>

\* Lines 366-387: skip a closed port; else build the context and add the
\* detected service entry.
se_port(u) ==
    /\ th[u].pc = "se_port"
    /\ LET t == th[u]
           port == t.doc[t.pi]
       IN IF skips_port(port)
          THEN /\ th' = [th EXCEPT ![u] = NextPort(t)]
               /\ UNCHANGED detected_services
          ELSE /\ detected_services' = detected_services \cup {Entry(port)}
               /\ th' = [th EXCEPT ![u] =
                            NextRule([t EXCEPT !.sdata =
                                         service_scan_data(port)], 1)]
    /\ UNCHANGED <<started, thread_lock, commands_ran, pattern_matches,
                   manual_scans, files, xml, initFiles, logs, manual_calls>>

\* Line 231, mutated: open(..., 'w'), what is written replaces the file.
open_truncate(content, written) == written

\* Line 231, open(..., 'a'): what is written goes after what the file
\* holds.
open_append(content, written) == content \o written

\* Lines 396-397 and 231-232: log_manual_steps opens manual_steps.log to
\* append and takes the lock.
lms_acquire(u) ==
    /\ th[u].pc = "lms_acq"
    /\ thread_lock = Free
    /\ thread_lock' = u
    /\ th' = [th EXCEPT ![u].pc = "lms_body"]
    /\ manual_calls' = manual_calls \cup
           {[unit |-> u, port |-> th[u].pi, rule |-> th[u].ri]}
    /\ UNCHANGED <<started, shared, files, xml, initFiles, logs>>

\* Lines 233-246: the loop, then the release of the lock.  A KeyError
\* leaves the loop with the lock held; the blocks written so far reach the
\* file as the with statement closes it.
lms_body(u) ==
    /\ th[u].pc = "lms_body"
    /\ LET t == th[u]
           r == lms_loop(services_scan_config[t.ri].manual, t.sdata, 1, 1,
                         manual_scans, <<>>, <<>>)
       IN /\ manual_scans' = r.ms
          /\ IF r.ok
             THEN /\ thread_lock' = Free
                  /\ th' = [th EXCEPT ![u].pc = "lms_close",
                                      ![u].mbuf = r.written]
                  /\ UNCHANGED manual_steps_log
             ELSE /\ manual_steps_log' =
                        open_append(manual_steps_log, r.written)
                  /\ th' = [th EXCEPT ![u] = Raise(th[u], "KeyError")]
                  /\ UNCHANGED thread_lock
    /\ UNCHANGED <<started, commands_ran, detected_services, pattern_matches,
                   files, xml, initFiles, commands_run_log,
                   detected_services_log, patterns_detected_log,
                   manual_calls>>

\* Line 231, the end of the with statement: the file is closed and what was
\* written is appended to manual_steps.log.  Then lines 399-400.
lms_close(u) ==
    /\ th[u].pc = "lms_close"
    /\ manual_steps_log' = open_append(manual_steps_log, th[u].mbuf)
    /\ LET t == [th[u] EXCEPT !.mbuf = <<>>]
       IN th' = [th EXCEPT ![u] =
                    IF Len(services_scan_config[t.ri].scan) > 0
                    THEN [t EXCEPT !.pc = "spawn"]
                    ELSE NextRule(t, t.ri + 1)]
    /\ UNCHANGED <<started, thread_lock, shared, files, xml, initFiles,
                   commands_run_log, detected_services_log,
                   patterns_detected_log, manual_calls>>

\* Lines 402-409: one thread per sub-scan of the rule.
se_spawn(u) ==
    /\ th[u].pc = "spawn"
    /\ LET t == th[u]
           scan == services_scan_config[t.ri].scan
           new == {<<u[1], t.pi, t.ri, k>> : k \in 1..Len(scan)}
       IN th' = [v \in Units \cup new |->
                    IF v = u THEN NextRule(t, t.ri + 1)
                    ELSE IF v \in new
                    THEN NewThread("secondary", scan[v[4]].command, t.sdata,
                                   scan[v[4]].pattern)
                    ELSE th[v]]
    /\ UNCHANGED <<started, thread_lock, shared, files, xml, initFiles,
                   logs, manual_calls>>

\* ---------------------------------------------------- log_detected_services

\* The bytes of the lines f.write is given.
RECURSIVE LogBytes(_)
LogBytes(lst) ==
    IF lst = <<>> THEN <<>>
    ELSE Head(lst) \o Codes("\n") \o LogBytes(Tail(lst))

\* The lines of a file's bytes (an unterminated last line included).
RECURSIVE LogLines(_, _)
LogLines(bytes, line) ==
    IF bytes = <<>> THEN (IF line = <<>> THEN <<>> ELSE <<line>>)
    ELSE IF Head(bytes) = 10 THEN <<line>> \o LogLines(Tail(bytes), <<>>)
    ELSE LogLines(Tail(bytes), Append(line, Head(bytes)))

\* Lines 215-218: the sorted copy of the set, then open(..., 'w'), which
\* empties the file and gives f a file position of 0.
lds_open(u) ==
    /\ th[u].pc = "lds_open"
    /\ \E detected_services_list \in SortedLists(detected_services) :
          th' = [th EXCEPT ![u].pc = "lds_write",
                           ![u].buf = LogBytes(detected_services_list)]
    /\ detected_services_log' = <<>>
    /\ UNCHANGED <<started, thread_lock, shared, files, xml, initFiles,
                   commands_run_log, manual_steps_log,
                   patterns_detected_log, manual_calls>>

\* Lines 219-222: under the lock the lines are written to f, which buffers
\* them.
lds_write(u) ==
    /\ th[u].pc = "lds_write"
    /\ thread_lock = Free
    /\ th' = [th EXCEPT ![u].pc = "lds_close"]
    /\ UNCHANGED <<started, thread_lock, shared, files, xml, initFiles,
                   logs, manual_calls>>

\* Line 218, the end of the with statement: closing f writes its buffer at
\* f's file position, over what the file holds from there and leaving what
\* follows.
lds_close(u) ==
    /\ th[u].pc = "lds_close"
    /\ LET buf == th[u].buf
       IN detected_services_log' =
             buf \o SubSeq(detected_services_log, Len(buf) + 1,
                           Len(detected_services_log))
    /\ th' = [th EXCEPT ![u] = NextPort([th[u] EXCEPT !.buf = <<>>])]
    /\ UNCHANGED <<started, thread_lock, shared, files, xml, initFiles,
                   commands_run_log, manual_steps_log,
                   patterns_detected_log, manual_calls>>

Next ==
    \/ enumerate
    \/ \E u \in Units : pec_render(u)
    \/ \E u \in Units : pec_gate(u)
    \/ \E u \in Units : pec_add(u)
    \/ \E u \in Units : print_command(u)
    \/ \E u \in Units : log_command_acquire(u)
    \/ \E u \in Units : log_command_write(u)
    \/ \E u \in Units : tool_writes(u)
    \/ \E u \in Units : communicate(u)
    \/ \E u \in Units : print_completed(u)
    \/ \E u \in Units : pec_post(u)
    \/ \E u \in Units : rpm_check(u)
    \/ \E u \in Units : rpm_update(u)
    \/ \E u \in Units : lrp_enter(u)
    \/ \E u \in Units : lrp_write(u)
    \/ \E u \in Units : se_read(u)
    \/ \E u \in Units : se_port(u)
    \/ \E u \in Units : lms_acquire(u)
    \/ \E u \in Units : lms_body(u)
    \/ \E u \in Units : lms_close(u)
    \/ \E u \in Units : se_spawn(u)
    \/ \E u \in Units : lds_open(u)
    \/ \E u \in Units : lds_write(u)
    \/ \E u \in Units : lds_close(u)

Spec == Init /\ [][Next]_vars
\* ------------------------------------------------------------------ claims

Secondaries == {u \in Units : th[u].type = "secondary"}

\* Every unit of work has been started and has returned.
AllDone == started /\ \A u \in Units : th[u].pc = "done"

\* C1: of the units of work whose rendered command is the same text, at
\* most one ever starts the subprocess.
C1_AtMostOneExecution ==
    \A u, v \in Units :
        (u # v /\ th[u].ran /\ th[v].ran) => th[u].cmd # th[v].cmd

\* C2: a unit whose output file exists when it reaches the gate never
\* starts the subprocess, and while no unit with that command has found the
\* file missing the command is not in commands_ran; a command whose output
\* file was on disk when the run started is never run by any unit.
C2_ExistingOutputNotRun ==
    \A u \in Units :
        /\ th[u].gate = "file" =>
              /\ ~th[u].ran
              /\ th[u].pc \notin {"add", "print_cmd", "log_acq", "log_write",
                                  "wait", "print_done"}
              /\ (\A v \in Units : th[v].cmd = th[u].cmd =>
                                      th[v].gate # "run")
                 => th[u].cmd \notin commands_ran
        /\ (th[u].cmd # <<>> /\
            determine_output_file(th[u].cmd, output_file_flags(th[u].type))
                \in initFiles)
           => ~th[u].ran /\ th[u].cmd \notin commands_ran

\* C2's case: a unit has returned whose output file was on disk at the
\* start.
C2_Witness ==
    \E u \in Units :
        /\ th[u].pc = "done"
        /\ th[u].gate = "file"
        /\ th[u].out \in initFiles

\* The lines of a log are in natural ascending order.
NaturallySorted(lines) ==
    \A i \in 1..(Len(lines) - 1) :
        ~KeyLess(natural_keys(lines[i + 1]), natural_keys(lines[i]))

\* C3: the entries of detected_services.log are in natural ascending
\* order.
C3_LogNaturallySorted ==
    NaturallySorted(LogLines(detected_services_log, <<>>))

\* Every call of record_pattern_matches has returned.
AllRpmReturned ==
    \A u \in Units : th[u].rpm.called => th[u].rpm.returned

\* C4: patterns.log lists no description twice, and once the calls of
\* record_pattern_matches have returned, each description it lists is
\* under the first file of pattern_matches that holds it.
C4_DescriptionShownOnce ==
    LET log == patterns_detected_log
        pm == pattern_matches
    IN /\ \A i, j \in 1..Len(log) :
             i # j => log[i].descs \cap log[j].descs = {}
       /\ AllRpmReturned =>
             \A i \in 1..Len(log) : \A d \in log[i].descs :
                \E k \in 1..Len(pm) :
                   /\ pm[k].file = log[i].file
                   /\ d \in pm[k].descs
                   /\ \A m \in 1..(k - 1) : d \notin pm[m].descs

\* C4's case: a description was matched in two files and the log has been
\* rewritten since.
C4_Witness ==
    /\ AllRpmReturned
    /\ patterns_detected_log # <<>>
    /\ \E i, j \in 1..Len(pattern_matches) :
          /\ i # j
          /\ pattern_matches[i].descs \cap pattern_matches[j].descs # {}

\* The commands of the blocks of manual_steps.log, in order.
RECURSIVE ManualCommands(_)
ManualCommands(log) ==
    IF log = <<>> THEN <<>>
    ELSE Head(log).commands \o ManualCommands(Tail(log))

\* C5: manual_steps.log holds no rendered command twice.
C5_ManualCommandOnce ==
    LET cmds == ManualCommands(manual_steps_log)
    IN \A i, j \in 1..Len(cmds) : i # j => cmds[i] # cmds[j]

\* C5's case: log_manual_steps was called twice with entries that render
\* one command, and both calls have appended.
C5_Witness ==
    /\ AllDone
    /\ \E a, b \in manual_calls :
          /\ a # b
          /\ \E x \in 1..Len(services_scan_config[a.rule].manual),
                y \in 1..Len(services_scan_config[b.rule].manual) :
                \E m \in 1..Len(services_scan_config[a.rule].manual[x].commands),
                   n \in 1..Len(services_scan_config[b.rule].manual[y].commands) :
                   LET ra == Format(services_scan_config[a.rule].manual[x].commands[m],
                                    service_scan_data(xml[a.unit[1]][a.port]))
                       rb == Format(services_scan_config[b.rule].manual[y].commands[n],
                                    service_scan_data(xml[b.unit[1]][b.port]))
                   IN /\ ra.ok /\ rb.ok /\ ra.text = rb.text
                      /\ \E i \in 1..Len(ManualCommands(manual_steps_log)) :
                            ManualCommands(manual_steps_log)[i] = ra.text

\* The closed ports of the reports.
ClosedPorts ==
    UNION {{xml[p][i] : i \in {k \in 1..Len(xml[p]) :
                                  xml[p][k].state = "closed"}} :
           p \in 1..Len(xml)}

\* C6: a closed port gives no detected service entry, no template
\* context, no call of log_manual_steps and no secondary unit.
C6_ClosedPortIgnored ==
    /\ \A port \in ClosedPorts : Entry(port) \notin detected_services
    /\ \A c \in manual_calls : xml[c.unit[1]][c.port].state # "closed"
    /\ \A u \in Secondaries : xml[u[1]][u[2]].state # "closed"
    /\ \A u \in Units :
          th[u].sdata # <<>> => th[u].doc[th[u].pi].state # "closed"

\* C6's case: secondary_enumerate has gone through a report with a closed
\* port.
C6_Witness ==
    \E u \in Units :
        /\ th[u].pc = "done"
        /\ th[u].parsed
        /\ \E i \in 1..Len(th[u].doc) : th[u].doc[i].state = "closed"

\* C7: a secondary unit the gate skipped because its output file exists
\* has called record_pattern_matches on that file with its patterns once
\* it is past line 348.
C7_SkippedStillMatched ==
    \A u \in Secondaries :
        (th[u].gate = "file" /\ th[u].pc # "post") =>
            /\ th[u].rpm.called
            /\ th[u].rpm.file = th[u].out
            /\ th[u].rpm.patterns = th[u].patterns

\* C7's case: a skipped secondary unit has returned, its matches recorded.
C7_Witness ==
    \E u \in Secondaries :
        /\ th[u].gate = "file"
        /\ th[u].pc = "done"
        /\ \E i \in 1..Len(pattern_matches) :
              pattern_matches[i].file = th[u].out

\* C8: a shared collection or a log file changes only in a step of the
\* thread that holds the lock.
C8_SharedAccessUnderLock ==
    [][(shared' # shared \/ logs' # logs) => thread_lock # Free]_vars

\* The lines of detected_services.log, as a set.
LoggedServices ==
    LET lines == LogLines(detected_services_log, <<>>)
    IN {lines[i] : i \in 1..Len(lines)}

\* C9: once all units of work have returned, detected_services.log holds
\* exactly the detected services.
C9_LogHoldsFullSet == AllDone => LoggedServices = detected_services

\* C10: a secondary unit exists only when its primary unit has passed the
\* gate, its subprocess (if it ran) has exited, and secondary_enumerate has
\* read the report.
C10_SecondaryAfterPrimary ==
    \A u \in Secondaries :
        LET p == th[<<u[1]>>]
        IN /\ p.gate \in {"run", "file"}
           /\ p.gate = "run" => p.exited
           /\ p.parsed

\* C10's case: a secondary unit has started the subprocess of its command.
C10_Witness ==
    \E u \in Secondaries : th[u].ran /\ th[<<u[1]>>].gate = "run"

\* The frame of the primary unit that started a secondary unit.
Parent(u) == th[<<u[1]>>]

\* C11: when a secondary unit exists, its primary unit has gone through
\* record_pattern_matches, and its call of log_detected_services for the
\* port of the unit's service has returned (the loop is at a later port,
\* or over).
C11_LoggedBeforeChildren ==
    \A u \in Secondaries :
        /\ Parent(u).rpm.called /\ Parent(u).rpm.returned
        /\ Parent(u).pc = "done" \/ Parent(u).pi > u[2]

\* Where a thread is while it runs secondary_enumerate.
DiscoverySteps ==
    {"se_read", "se_port", "lms_acq", "lms_body", "lms_close", "spawn",
     "lds_open", "lds_write", "lds_close"}

\* C12: the units enumerate starts are primary and all others, started by
\* a primary unit that has read its report, are secondary; a secondary
\* unit never runs secondary_enumerate; and the run has no more units than
\* the primary scans plus the sub-scans of the rules that match the open
\* ports of their reports.
C12_TwoTiers ==
    /\ \A u \in Units :
          /\ Len(u) = 1 => th[u].type = "primary"
          /\ Len(u) # 1 =>
                /\ th[u].type = "secondary"
                /\ Parent(u).type = "primary"
                /\ Parent(u).parsed
          /\ th[u].type = "secondary" =>
                /\ ~th[u].parsed
                /\ th[u].pc \notin DiscoverySteps
    /\ Cardinality(Units) <=
          Len(port_scan_config) + SpawnCount(xml[1], 1) + SpawnCount(xml[2], 1)

\* C12's case: a secondary unit has an output file, has had it searched
\* for patterns and has returned.
C12_Witness ==
    \E u \in Secondaries :
        /\ th[u].pc = "done"
        /\ th[u].rpm.called /\ th[u].rpm.returned
        /\ th[u].out \in files

\* The steps at which a thread waits for the lock.
LockSteps ==
    {"print_cmd", "log_acq", "print_done", "lrp", "lms_acq", "lds_write"}

\* C13: a unit that a KeyError of a template or an unreadable result file
\* has ended does not hold the lock.
C13_FailureStaysLocal ==
    \A u \in Units :
        (th[u].pc = "dead" /\ th[u].err \in {"KeyError", "FileNotFoundError"})
            => thread_lock # u

\* C14: manual_steps.log is empty when the run starts, and every step
\* leaves what it holds in place: the log after the step starts with the
\* log before it.
C14_ManualLogAppendOnly ==
    [][/\ Len(manual_steps_log') >= Len(manual_steps_log)
       /\ SubSeq(manual_steps_log', 1, Len(manual_steps_log))
              = manual_steps_log]_vars

\* C14's case: two calls of log_manual_steps have each appended a block.
C14_Witness ==
    /\ Len(manual_steps_log) >= 2
    /\ Cardinality(manual_calls) >= 2

\* The rule loop of a primary unit is over for port i of its report.
PortProcessed(p, i) ==
    /\ th[p].parsed
    /\ i \in 1..Len(th[p].doc)
    /\ th[p].pc = "done" \/ (th[p].pi > i /\ th[p].pc # "dead")

\* C15: a secondary unit and a call of log_manual_steps come only from a
\* rule that matches the service of a port that is not closed; and once
\* the rule loop is over for such a port, every rule that matches has had
\* its manual steps handed to log_manual_steps and one secondary unit
\* started for each of its sub-scans.
C15_AllMatchingRulesFire ==
    /\ \A u \in Secondaries :
          LET port == xml[u[1]][u[2]]
              scan == services_scan_config[u[3]]
          IN /\ port.state # "closed"
             /\ RuleMatches(scan, port.service.name)
             /\ u[4] \in 1..Len(scan.scan)
    /\ \A c \in manual_calls :
          /\ RuleMatches(services_scan_config[c.rule],
                         xml[c.unit[1]][c.port].service.name)
          /\ services_scan_config[c.rule].manual # <<>>
    /\ \A p \in Units \ Secondaries : \A i \in 1..Len(th[p].doc) :
          (PortProcessed(p, i) /\ th[p].doc[i].state # "closed") =>
             \A r \in 1..Len(services_scan_config) :
                RuleMatches(services_scan_config[r],
                            th[p].doc[i].service.name) =>
                   /\ services_scan_config[r].manual # <<>> =>
                         [unit |-> p, port |-> i, rule |-> r] \in manual_calls
                   /\ \A k \in 1..Len(services_scan_config[r].scan) :
                         <<p[1], i, r, k>> \in Units

\* C15's case: the rule loop is over for a port whose service two rules
\* match, and both have started their secondary units.
C15_Witness ==
    \E p \in Units \ Secondaries : \E i \in 1..Len(th[p].doc) :
        /\ PortProcessed(p, i)
        /\ \E u, v \in Secondaries :
              /\ u[1] = p[1] /\ v[1] = p[1]
              /\ u[2] = i /\ v[2] = i
              /\ u[3] # v[3]

\* The rendered command c of entry e of a rule's manual steps.
Rendered(manual, sd, e, c) == Format(manual[e].commands[c], sd).text

\* The commands that are known when command c of entry e is looked at:
\* those of the set before the call and those rendered earlier in the call.
KnownBefore(manual, sd, before, e, c) ==
    before
    \cup UNION {{Rendered(manual, sd, x, y) :
                     y \in 1..Len(manual[x].commands)} : x \in 1..(e - 1)}
    \cup {Rendered(manual, sd, e, y) : y \in 1..(c - 1)}

\* The commands of entry e that are new, in the entry's order.
NewCommands(manual, sd, before, e) ==
    LET idx == SelectSeq([c \in 1..Len(manual[e].commands) |-> c],
                         LAMBDA c : Rendered(manual, sd, e, c) \notin
                                    KnownBefore(manual, sd, before, e, c))
    IN [i \in 1..Len(idx) |-> Rendered(manual, sd, e, idx[i])]

\* The blocks a call is to write: one for each entry with a new command.
RECURSIVE NewBlocks(_, _, _, _)
NewBlocks(manual, sd, before, e) ==
    IF e > Len(manual) THEN <<>>
    ELSE (IF NewCommands(manual, sd, before, e) # <<>>
          THEN <<[description |-> manual[e].description,
                  commands |-> NewCommands(manual, sd, before, e)]>>
          ELSE <<>>) \o NewBlocks(manual, sd, before, e + 1)

\* C16: a call of log_manual_steps whose loop ends writes, for each entry,
\* the block of the entry's commands that were not known, in order, when
\* there is one, and no block otherwise; after it the set holds every
\* rendered command of every entry besides what it held.
C16_ManualBlocks ==
    [][\A u \in Units :
          (th[u].pc = "lms_body" /\ th'[u].pc = "lms_close") =>
             LET manual == services_scan_config[th[u].ri].manual
                 sd == th[u].sdata
             IN /\ th'[u].mbuf = NewBlocks(manual, sd, manual_scans, 1)
                /\ manual_scans' =
                      KnownBefore(manual, sd, manual_scans,
                                  Len(manual) + 1, 1)]_vars

\* C16's case: a call has left out a command that was known and written
\* the command after it of the same entry.
C16_Witness ==
    \E u \in Units :
        /\ th[u].pc = "lms_close"
        /\ \E b \in 1..Len(th[u].mbuf) :
              \E e \in 1..Len(services_scan_config[th[u].ri].manual) :
                 LET entry == services_scan_config[th[u].ri].manual[e]
                 IN /\ entry.description = th[u].mbuf[b].description
                    /\ Len(th[u].mbuf[b].commands) < Len(entry.commands)
                    /\ Format(entry.commands[1], th[u].sdata).text
                          \in manual_scans
                    /\ th[u].mbuf[b].commands[1] # 
                          Format(entry.commands[1], th[u].sdata).text

\* The patterns the scan definition of a unit's command declares.
DeclaredPatterns(u) ==
    IF th[u].type = "primary" THEN port_scan_config[u[1]].pattern
    ELSE services_scan_config[u[3]].scan[u[4]].pattern

\* The steps of record_pattern_matches and log_recorded_patterns that
\* change pattern_matches or patterns.log.
MatchingSteps == {"rpm_check", "rpm_update", "lrp", "lrp_write"}

\* C17: a unit that has called record_pattern_matches has its output
\* searched for the patterns its scan definition declares, followed for a
\* secondary unit by the universal patterns; and with no pattern to search
\* the call returns without a step that changes pattern_matches or
\* patterns.log.
C17_PatternsSearched ==
    \A u \in Units :
        th[u].rpm.called =>
            LET searched == patterns_to_search(th[u].rpm.patterns, th[u].ctx)
            IN /\ searched = IF th[u].type = "primary"
                             THEN DeclaredPatterns(u)
                             ELSE DeclaredPatterns(u) \o universal_patterns
               /\ searched = <<>> =>
                     /\ th[u].rpm.returned
                     /\ th[u].pc \notin MatchingSteps

\* C18: a unit that came to the gate with a command that names no output
\* file was told to run it; it calls neither record_pattern_matches nor
\* secondary_enumerate; and when it has returned, its subprocess has run
\* and exited.
C18_NoOutputAlwaysRun ==
    \A u \in Units :
        (th[u].gate \in {"run", "file"} /\ th[u].out = None) =>
            /\ th[u].gate = "run"
            /\ ~th[u].rpm.called
            /\ ~th[u].parsed
            /\ th[u].pc \notin MatchingSteps \cup DiscoverySteps
            /\ th[u].pc = "done" => th[u].ran /\ th[u].exited

\* C18's case: a unit whose command names no output file has run it and
\* returned.
C18_Witness ==
    \E u \in Units :
        /\ th[u].pc = "done"
        /\ th[u].gate = "run"
        /\ th[u].out = None
        /\ determine_output_file(th[u].cmd, output_file_flags(th[u].type))
              = None

\* C20: a unit that found its command in commands_ran has returned with
\* no call of record_pattern_matches or secondary_enumerate and no
\* subprocess; a primary unit that found its output file on disk calls
\* record_pattern_matches on it, then reads it in secondary_enumerate,
\* and when it has returned the secondary units of the report's open
\* ports are started.
C20_SkipCausesDiffer ==
    \A u \in Units :
        /\ th[u].gate = "ran" =>
              /\ th[u].pc = "done"
              /\ ~th[u].rpm.called
              /\ ~th[u].parsed
              /\ ~th[u].ran
        /\ (th[u].type = "primary" /\ th[u].gate = "file") =>
              /\ th[u].pc # "post" =>
                    th[u].rpm.called /\ th[u].rpm.file = th[u].out
              /\ th[u].pc \notin {"post", "se_read"} =>
                    th[u].parsed /\ th[u].doc = XmlOf(th[u].out)
              /\ th[u].pc = "done" =>
                    \A i \in 1..Len(th[u].doc) :
                       th[u].doc[i].state # "closed" =>
                          \A r \in 1..Len(services_scan_config) :
                             RuleMatches(services_scan_config[r],
                                         th[u].doc[i].service.name) =>
                                \A k \in 1..Len(services_scan_config[r].scan) :
                                   <<u[1], i, r, k>> \in Units

\* C20's case: a primary unit skipped for its output file has returned
\* with secondary units started from it, and a unit skipped for its
\* command being in commands_ran has returned.
C20_Witness ==
    /\ \E u \in Units \ Secondaries :
          /\ th[u].gate = "file"
          /\ th[u].pc = "done"
          /\ \E v \in Secondaries : v[1] = u[1]
    /\ \E u \in Units : th[u].gate = "ran" /\ th[u].pc = "done"

\* The thread of a unit has ended: it returned, or an exception ended it.
Ended(u) == th[u].pc \in {"done", "dead"}

\* The thread waits for the lock (log_recorded_patterns asks for it only
\* when pattern_matches holds something).
WaitsForLock(u) ==
    /\ th[u].pc \in LockSteps
    /\ th[u].pc = "lrp" => pattern_matches # <<>>

\* C19: a unit that has returned was either skipped by the gate with no
\* subprocess, or was run and its subprocess has exited; and no thread
\* waits for the lock while the thread that holds it has ended, for it
\* would wait for ever and its unit never return.
C19_RunQuiesces ==
    /\ \A u \in Units :
          th[u].pc = "done" =>
             \/ th[u].gate \in {"ran", "file"} /\ ~th[u].ran
             \/ th[u].gate = "run" /\ th[u].ran /\ th[u].exited
    /\ \A u \in Units :
          WaitsForLock(u) =>
             \/ thread_lock = Free
             \/ thread_lock \in Units /\ ~Ended(thread_lock)

====
